---- MODULE Spec2Model ----
(***************************************************************************)
(* Model of tools/scripts/ci/check-chinese-content.py:                     *)
(* ChineseContentChecker.has_real_chinese_content, _analyze_content_type,  *)
(* check_file and the check_java_files / check_frontend_files loops.       *)
(*                                                                         *)
(* A text is a sequence of characters; a character is a one-element token: *)
(* an ASCII character stands for itself; a non-ASCII character and the    *)
(* three quote characters are written by code point (U4E2D, U0022).        *)
(***************************************************************************)
EXTENDS Integers, Sequences, FiniteSets, TLC

VARIABLES
    pc,                    \* position of the program
    text,                  \* argument of the function under call (SpecText)
    ret,                   \* value returned by the last call
    check_java,            \* self.check_java
    check_frontend,        \* self.check_frontend
    phase,                 \* the caller check_file returns to
    todo,                  \* files the current loop has still to check
    seen,                  \* what each check_file call found on disk, in call order
    file_path,             \* check_file: the file being checked
    lines,                 \* check_file: f.readlines()
    line_num,              \* check_file: number of lines the loop has consumed
    in_multiline_comment,  \* check_file: local flag
    in_template_section,   \* check_file: local flag
    issues,                \* check_file: local list of findings
    self_issues,           \* self.issues
    warnings               \* files reported on stderr as unreadable

vars == <<pc, text, ret, check_java, check_frontend, phase, todo, seen, file_path,
          lines, line_num, in_multiline_comment, in_template_section, issues,
          self_issues, warnings>>

-----------------------------------------------------------------------------
(* Characters and character classes (Python 3 str patterns are Unicode).    *)

\* [\u4e00-\u9fff]: the ideographs of the alphabet
Ideograph == {"U4E2D", "U6587", "U5F20", "U4E09"}

\* the twelve non-ASCII glyphs of the punctuation pattern
PunctGlyph == {"UFF0C", "U3002", "UFF01", "UFF1F", "UFF1B", "UFF1A",
               "UFF08", "UFF09", "U3010", "U3011", "U300A", "U300B"}

UpperLetter == {"A", "S", "I", "N", "U", "L", "O", "T", "H", "R", "M", "E"}
LowerLetter == {"a", "s", "i", "n", "u", "l", "o", "t", "h", "r", "m", "e", "p", "x"}
Digit == {"0", "1", "2"}
Space == {" ", "\t", "\n"}
\* "U0022" is the double quote, "U0027" the apostrophe, "U0060" the backtick
Symbol == {"/", "*", "U0022", "U0027", "U0060", "@", "=", "<", ">", "_"}

Alphabet == Ideograph \cup PunctGlyph \cup UpperLetter \cup LowerLetter
            \cup Digit \cup Space \cup Symbol

\* \w of a str pattern: letters, digits, underscore, and every Unicode
\* alphanumeric, the ideographs included
WordChar == UpperLetter \cup LowerLetter \cup Digit \cup {"_"} \cup Ideograph

\* re.IGNORECASE: simple case folding of the letters of the alphabet
Fold(c) ==
    CASE c = "A" -> "a" [] c = "S" -> "s" [] c = "I" -> "i" [] c = "N" -> "n"
      [] c = "U" -> "u" [] c = "L" -> "l" [] c = "O" -> "o" [] c = "T" -> "t"
      [] c = "H" -> "h" [] c = "R" -> "r" [] c = "M" -> "m" [] c = "E" -> "e"
      [] OTHER -> c

-----------------------------------------------------------------------------
(* Regular expressions as the re module matches them: a pattern is a        *)
(* sequence of items, each a greedy quantified character class, a word      *)
(* boundary or an end of string; matching backtracks from the longest run.  *)

\* The(S): the element of the one-element set S. { f(x) : x \in {e} } binds
\* the value of e to x, so that f uses it without evaluating e again.
The(S) == CHOOSE x \in S : TRUE

Cls(S, lo, hi) == [kind |-> "cls", cls |-> S, min |-> lo, max |-> hi, inf |-> FALSE]
Many(S, lo)    == [kind |-> "cls", cls |-> S, min |-> lo, max |-> lo, inf |-> TRUE]
WB             == [kind |-> "wb",  cls |-> {}, min |-> 0, max |-> 0, inf |-> FALSE]
EOS            == [kind |-> "eos", cls |-> {}, min |-> 0, max |-> 0, inf |-> FALSE]

\* a literal string, case-sensitive
Lit(s)  == [i \in 1..Len(s) |-> Cls({s[i]}, 1, 1)]
\* a literal string under re.IGNORECASE
LitI(s) == [i \in 1..Len(s) |-> Cls({c \in Alphabet : Fold(c) = Fold(s[i])}, 1, 1)]

\* \b at position i (between t[i-1] and t[i])
IsBoundary(t, i) ==
    LET before == i > 1 /\ t[i-1] \in WordChar
        after  == i <= Len(t) /\ t[i] \in WordChar
    IN  before # after

\* $ at position i: the end of the string, or just before a final newline
IsEnd(t, i) == i = Len(t) + 1 \/ (i = Len(t) /\ t[i] = "\n")

\* length of the run of characters of S that starts at t[i], at most cap
RECURSIVE Run(_, _, _, _)
Run(t, i, S, cap) ==
    IF cap = 0 \/ i > Len(t) \/ t[i] \notin S THEN 0
    ELSE 1 + Run(t, i + 1, S, cap - 1)

\* MatchFrom(p, k, t, i): the position after the match of p[k..] at t[i..]
\* that the backtracking matcher finds first, or 0 when there is none
RECURSIVE MatchFrom(_, _, _, _)
RECURSIVE TryCount(_, _, _, _, _)
MatchFrom(p, k, t, i) ==
    IF k > Len(p) THEN i
    ELSE CASE p[k].kind = "wb"  -> IF IsBoundary(t, i) THEN MatchFrom(p, k + 1, t, i) ELSE 0
           [] p[k].kind = "eos" -> IF IsEnd(t, i) THEN MatchFrom(p, k + 1, t, i) ELSE 0
           [] OTHER ->
                TryCount(p, k, t, i,
                         Run(t, i, p[k].cls, IF p[k].inf THEN Len(t) ELSE p[k].max))
\* a run of n characters for item k, then the rest; else a shorter run
TryCount(p, k, t, i, n) ==
    IF n < p[k].min THEN 0
    ELSE The({ IF e # 0 THEN e ELSE TryCount(p, k, t, i, n - 1) :
               e \in {MatchFrom(p, k + 1, t, i + n)} })

\* FindAll(p, t, i): the non-overlapping matches of p in t[i..], leftmost
\* first, as <<first, next>> pairs (re.finditer; no pattern here matches
\* the empty string)
RECURSIVE FindAll(_, _, _)
FindAll(p, t, i) ==
    IF i > Len(t) THEN << >>
    ELSE The({ IF e = 0 \/ e = i THEN FindAll(p, t, i + 1)
               ELSE << <<i, e>> >> \o FindAll(p, t, e) :
               e \in {MatchFrom(p, 1, t, i)} })

\* re.search(p, t) is not None
Search(p, t) == FindAll(p, t, 1) # << >>

\* the characters of t outside the spans ms
Outside(t, ms) ==
    LET keep == {i \in 1..Len(t) : \A k \in 1..Len(ms) : i < ms[k][1] \/ i >= ms[k][2]}
        F[i \in 0..Len(t)] ==
            IF i = 0 THEN << >>
            ELSE IF i \in keep THEN Append(F[i-1], t[i]) ELSE F[i-1]
    IN  F[Len(t)]

\* re.sub(p, empty, t)
Sub(p, t) == The({ Outside(t, ms) : ms \in {FindAll(p, t, 1)} })

\* t[a..b-1]
Slice(t, a, b) == SubSeq(t, a, b - 1)

-----------------------------------------------------------------------------
(* ChineseContentChecker.__init__                                           *)

chinese_pattern == << Cls(Ideograph, 1, 1) >>

\* the pattern has no brackets: it is the fourteen characters in a row
chinese_punctuation ==
    Lit(<< "UFF0C", "U3002", "UFF01", "UFF1F", "UFF1B", "UFF1A", "U0022", "U0022",
           "UFF08", "UFF09", "U3010", "U3011", "U300A", "U300B" >>)

exclude_patterns == <<
    << WB >> \o LitI(<< "A", "S", " ", "I", "S" >>) \o << WB >>,
    << WB >> \o LitI(<< "I", "S", " ", "N", "U", "L", "L" >>) \o << WB >>,
    << WB >> \o LitI(<< "I", "S", " ", "N", "O", "T" >>) \o << WB >>,
    LitI(<< "@", "a", "u", "t", "h", "o", "r" >>)
        \o << Many(Space, 1), Many(WordChar, 1) >>,
    LitI(<< "@", "t", "i", "m", "e" >>)
        \o << Many(Space, 1), Cls(Digit, 4, 4), Cls({"/"}, 1, 1),
              Cls(Digit, 1, 2), Cls({"/"}, 1, 1), Cls(Digit, 1, 2) >>
>>

-----------------------------------------------------------------------------
(* ChineseContentChecker.has_real_chinese_content                           *)

\* self.chinese_pattern.search(t) or self.chinese_punctuation.search(t)
Present(t) == Search(chinese_pattern, t) \/ Search(chinese_punctuation, t)

\* the for loop over self.exclude_patterns, from pattern k on
RECURSIVE ExcludeLoop(_, _)
ExcludeLoop(t, k) ==
    IF k > Len(exclude_patterns) THEN TRUE
    ELSE IF Search(exclude_patterns[k], t) /\ ~Present(Sub(exclude_patterns[k], t))
         THEN FALSE
         ELSE ExcludeLoop(t, k + 1)

has_real_chinese_content(t) ==
    IF ~Present(t) THEN FALSE ELSE ExcludeLoop(t, 1)

-----------------------------------------------------------------------------
(* str methods                                                              *)

\* t.startswith(s)
StartsWith(t, s) == Len(t) >= Len(s) /\ SubSeq(t, 1, Len(s)) = s

\* t.find(s): the first position of s in t, or 0 when s is not in t
Find(t, s) ==
    LET at == {i \in 1..(Len(t) - Len(s) + 1) : SubSeq(t, i, i + Len(s) - 1) = s}
    IN  IF at = {} THEN 0 ELSE CHOOSE i \in at : \A j \in at : i <= j

\* s in t
Contains(t, s) == Find(t, s) # 0

\* t.rstrip()
RECURSIVE RStrip(_)
RStrip(t) ==
    IF t # << >> /\ t[Len(t)] \in Space THEN RStrip(SubSeq(t, 1, Len(t) - 1)) ELSE t

\* t.lstrip()
RECURSIVE LStrip(_)
LStrip(t) ==
    IF t # << >> /\ t[1] \in Space THEN LStrip(Tail(t)) ELSE t

\* t.strip()
Strip(t) == LStrip(RStrip(t))

OpenComment   == << "/", "*" >>
CloseComment  == << "*", "/" >>
LineComment   == << "/", "/" >>
OpenTemplate  == << "<", "t", "e", "m", "p", "l", "a", "t", "e", ">" >>
CloseTemplate == << "<", "/", "t", "e", "m", "p", "l", "a", "t", "e", ">" >>

-----------------------------------------------------------------------------
(* ChineseContentChecker._analyze_content_type                              *)

\* "[^"]*" and its apostrophe and backtick forms
Quoted(q) == << Cls({q}, 1, 1), Many(Alphabet \ {q}, 0), Cls({q}, 1, 1) >>

\* //.*$
CommentTail == Lit(LineComment) \o << Many(Alphabet \ {"\n"}, 0), EOS >>

\* for match in re.finditer(Quoted(q), t): has_real_chinese_content(match.group(1))
AnyQuotedContent(q, t) ==
    \E ms \in {FindAll(Quoted(q), t, 1)} :
        \E k \in 1..Len(ms) :
            has_real_chinese_content(Slice(t, ms[k][1] + 1, ms[k][2] - 1))

\* the text left for the identifier check
TempLine(t) ==
    The({ Sub(CommentTail, t3) : t3 \in
          { Sub(Quoted("U0060"), t2) : t2 \in
            { Sub(Quoted("U0027"), t1) : t1 \in { Sub(Quoted("U0022"), t) } } } })

\* the classifier with the identifier check moved before the literal checks
analyze_identifier_first(line, in_mc, in_ts) ==
    IF in_mc \/ StartsWith(line, OpenComment) THEN "multiline comment"
    ELSE IF StartsWith(line, LineComment) THEN "single line comment"
    ELSE IF Contains(line, LineComment)
            /\ has_real_chinese_content(
                   SubSeq(line, Find(line, LineComment), Len(line)))
         THEN "inline comment"
    ELSE IF in_ts THEN "Vue template"
    ELSE IF has_real_chinese_content(TempLine(line)) THEN "identifier or code"
    ELSE IF AnyQuotedContent("U0022", line) THEN "string literal"
    ELSE IF AnyQuotedContent("U0060", line) THEN "template literal"
    ELSE IF AnyQuotedContent("U0027", line) THEN "character literal"
    ELSE "unknown location"

analyze_content_type(line, in_mc, in_ts) ==
    IF in_mc \/ StartsWith(line, OpenComment) THEN "multiline comment"
    ELSE IF StartsWith(line, LineComment) THEN "single line comment"
    ELSE IF Contains(line, LineComment)
            /\ has_real_chinese_content(
                   SubSeq(line, Find(line, LineComment), Len(line)))
         THEN "inline comment"
    ELSE IF in_ts THEN "Vue template"
    ELSE IF AnyQuotedContent("U0022", line) THEN "string literal"
    ELSE IF AnyQuotedContent("U0060", line) THEN "template literal"
    ELSE IF AnyQuotedContent("U0027", line) THEN "character literal"
    ELSE IF has_real_chinese_content(TempLine(line)) THEN "identifier or code"
    ELSE "unknown location"

-----------------------------------------------------------------------------
(* ChineseContentChecker.check_file                                         *)

\* file_path.suffix
Suffix(path) ==
    CASE path = "A.java" -> ".java"
      [] path = "B.vue"  -> ".vue"
      [] path = "C.ts"   -> ".ts"

\* the two tests in the other order: close first, then open
UpdateMultilineCloseFirst(in_mc, line_stripped) ==
    LET closed == IF Contains(line_stripped, CloseComment) THEN FALSE ELSE in_mc
    IN  IF Contains(line_stripped, OpenComment) THEN TRUE ELSE closed

\* Update multiline comment status
UpdateMultiline(in_mc, line_stripped) ==
    LET opened == IF Contains(line_stripped, OpenComment) THEN TRUE ELSE in_mc
    IN  IF Contains(line_stripped, CloseComment) THEN FALSE ELSE opened

\* Update template section status for Vue files
UpdateTemplate(in_ts, line_stripped, path) ==
    IF Suffix(path) = ".vue"
    THEN IF Contains(line_stripped, OpenTemplate) THEN TRUE
         ELSE IF Contains(line_stripped, CloseTemplate) THEN FALSE
         ELSE in_ts
    ELSE in_ts

\* the finding of line number n
Issue(path, n, original_line, content_type) ==
    [file |-> path, line |-> n, content |-> original_line, type |-> content_type,
     message |-> << "Found Chinese content in", content_type >>]

\* enumerate(lines): numbering from 0
LineNumberFromZero(k) == k

\* enumerate(lines, 1): the number of the line after k consumed lines
LineNumber(k) == k + 1

\* the body of the for loop: st is the record of the three locals
\* in_multiline_comment (mc), in_template_section (ts) and issues
LoopBody(st, path, n, line) ==
    The({ IF line_stripped = << >> THEN st
          ELSE IF ~has_real_chinese_content(line_stripped) THEN st
          ELSE [mc |-> UpdateMultiline(st.mc, line_stripped),
                ts |-> UpdateTemplate(st.ts, line_stripped, path),
                issues |-> Append(st.issues,
                                  Issue(path, n, RStrip(line),
                                        analyze_content_type(line_stripped,
                                                             st.mc, st.ts)))] :
          line_stripped \in {Strip(line)} })

\* the locals when the loop starts
FreshState == [mc |-> FALSE, ts |-> FALSE, issues |-> << >>]

\* the locals after the loop has consumed the first k lines of ls
RECURSIVE Scan(_, _, _)
Scan(path, ls, k) ==
    IF k = 0 THEN FreshState
    ELSE The({ LoopBody(st, path, LineNumber(k - 1), ls[k]) :
               st \in {Scan(path, ls, k - 1)} })

-----------------------------------------------------------------------------
(* Inputs                                                                   *)

MaxFrags == 3
MaxLines == 3
MaxLinesAll == 2

Quote == "U0022"
Zh    == << "U4E2D" >>
Name  == << "U5F20", "U4E09" >>
Comma == << "UFF0C" >>
AuthorTag == << "@", "a", "u", "t", "h", "o", "r", " " >>
AsIs  == << "A", "S", " ", "I", "S" >>
PunctRow == << "UFF0C", "U3002", "UFF01", "UFF1F", "UFF1B", "UFF1A", "U0022",
               "U0022", "UFF08", "UFF09", "U3010", "U3011", "U300A", "U300B" >>

\* the pieces the texts are made of
Frags == { Zh, Name, Comma, PunctRow, AuthorTag, AsIs, << " " >>, << Quote >>,
           << Quote >> \o Zh \o << Quote >>,
           << "U0027" >> \o Zh \o << "U0027" >>,
           << "U0060" >> \o Zh \o << "U0060" >>,
           LineComment, OpenComment }

RECURSIVE Flatten(_)
Flatten(ss) == IF ss = << >> THEN << >> ELSE Head(ss) \o Flatten(Tail(ss))

\* the texts the two functions are called with
TextSet == { Flatten(fs) : fs \in UNION { [1..n -> Frags] : n \in 0..MaxFrags } }

\* the raw lines of the files, line terminator included
LineSet == { l \o << "\n" >> : l \in
             { << >>,
               OpenComment,
               CloseComment,
               << " ", " " >> \o Zh \o << "U6587", " ", "=", " ", "1" >>,
               OpenComment \o << " " >> \o Zh,
               Zh \o << " " >> \o CloseComment,
               OpenComment \o << " " >> \o Zh \o << " " >> \o CloseComment,
               CloseComment \o << " " >> \o Zh \o << " " >> \o OpenComment,
               OpenTemplate \o Zh,
               CloseTemplate \o Zh } }

\* a plain flagged line, and one that opens a template region and a comment
SmallLineSet == { l \o << "\n" >> : l \in
                  { Zh, OpenTemplate \o Zh \o << " " >> \o OpenComment } }

\* the contents a file can have
Contents(L, n) == UNION { [1..k -> L] : k \in 0..n }
FileSet      == Contents(LineSet, MaxLines)
SmallFileSet == Contents(SmallLineSet, MaxLinesAll)

\* list(java_dir.rglob(...)) and the filtered frontend_files
JavaPaths     == << "A.java" >>
FrontendPaths == << "B.vue", "C.ts" >>

-----------------------------------------------------------------------------
(* Calls of the two pure methods                                            *)

Idle ==
    /\ check_java = TRUE /\ check_frontend = TRUE /\ phase = "call"
    /\ todo = << >> /\ seen = << >> /\ file_path = "A.java" /\ lines = << >>
    /\ line_num = 0 /\ in_multiline_comment = FALSE /\ in_template_section = FALSE
    /\ issues = << >> /\ self_issues = << >> /\ warnings = << >>

InitText == pc = "call" /\ text \in TextSet /\ ret = "none" /\ Idle

CallHasReal ==
    /\ pc = "call"
    /\ ret' = has_real_chinese_content(text)
    /\ pc' = "has_real"
    /\ UNCHANGED <<text, check_java, check_frontend, phase, todo, seen, file_path,
                   lines, line_num, in_multiline_comment, in_template_section,
                   issues, self_issues, warnings>>

CallAnalyze ==
    /\ pc = "call"
    /\ \E in_mc \in BOOLEAN, in_ts \in BOOLEAN :
          /\ in_multiline_comment' = in_mc
          /\ in_template_section' = in_ts
          /\ ret' = analyze_content_type(text, in_mc, in_ts)
    /\ pc' = "analyzed"
    /\ UNCHANGED <<text, check_java, check_frontend, phase, todo, seen, file_path,
                   lines, line_num, issues, self_issues, warnings>>

NextText == CallHasReal \/ CallAnalyze

SpecText == InitText /\ [][NextText]_vars

-----------------------------------------------------------------------------
(* check_file, one step per line                                            *)

\* the two flags kept from the previous call instead of set to False
OpenKeepsFlags(F) ==
    /\ pc = "open"
    /\ \E content \in F :
          /\ lines' = content
          /\ seen' = Append(seen, [path |-> file_path, readable |-> TRUE,
                                   lines |-> content])
    /\ line_num' = 0
    /\ pc' = "loop"
    /\ UNCHANGED <<text, ret, check_java, check_frontend, phase, todo, file_path,
                   in_multiline_comment, in_template_section, issues, self_issues,
                   warnings>>

\* issues = []; open(); f.readlines(); the two flags set to False
Open(F) ==
    /\ pc = "open"
    /\ \E content \in F :
          /\ lines' = content
          /\ seen' = Append(seen, [path |-> file_path, readable |-> TRUE,
                                   lines |-> content])
    /\ in_multiline_comment' = FALSE
    /\ in_template_section' = FALSE
    /\ line_num' = 0
    /\ pc' = "loop"
    /\ UNCHANGED <<text, ret, check_java, check_frontend, phase, todo, file_path,
                   issues, self_issues, warnings>>

\* no handler: the exception leaves check_file and its callers
ExceptPropagates(path) == [pc |-> "raised", warnings |-> warnings]

\* except Exception as e: print the warning, then fall through to the return
Except(path) == [pc |-> "except", warnings |-> Append(warnings, path)]

\* open() or readlines() raises
OpenFails ==
    /\ pc = "open"
    /\ seen' = Append(seen, [path |-> file_path, readable |-> FALSE, lines |-> << >>])
    /\ pc' = Except(file_path).pc
    /\ warnings' = Except(file_path).warnings
    /\ UNCHANGED <<text, ret, check_java, check_frontend, phase, todo, file_path,
                   lines, line_num, in_multiline_comment, in_template_section,
                   issues, self_issues>>

\* one iteration of for line_num, line in enumerate(lines, 1)
ProcessLine ==
    /\ pc = "loop"
    /\ line_num < Len(lines)
    /\ \E st \in {LoopBody([mc |-> in_multiline_comment, ts |-> in_template_section,
                            issues |-> issues],
                           file_path, LineNumber(line_num), lines[line_num + 1])} :
           /\ in_multiline_comment' = st.mc
           /\ in_template_section' = st.ts
           /\ issues' = st.issues
    /\ line_num' = line_num + 1
    /\ UNCHANGED <<pc, text, ret, check_java, check_frontend, phase, todo, seen,
                   file_path, lines, self_issues, warnings>>

\* return issues
Return ==
    /\ \/ pc = "loop" /\ line_num = Len(lines)
       \/ pc = "except"
    /\ ret' = issues
    /\ pc' = "returned"
    /\ UNCHANGED <<text, check_java, check_frontend, phase, todo, seen, file_path,
                   lines, line_num, in_multiline_comment, in_template_section,
                   issues, self_issues, warnings>>

\* a call of check_file on one file
Init ==
    /\ pc = "open" /\ text = << >> /\ ret = "none"
    /\ check_java = TRUE /\ check_frontend = TRUE /\ phase = "call"
    /\ todo = << >> /\ seen = << >>
    /\ file_path \in {"A.java", "B.vue"}
    /\ lines = << >> /\ line_num = 0
    /\ in_multiline_comment = FALSE /\ in_template_section = FALSE
    /\ issues = << >> /\ self_issues = << >> /\ warnings = << >>

OpenFile == Open(FileSet)

Next == OpenFile \/ OpenFails \/ ProcessLine \/ Return

Spec == Init /\ [][Next]_vars

-----------------------------------------------------------------------------
(* check_all: check_java_files, then check_frontend_files                   *)

InitAll ==
    /\ pc = "check_all" /\ text = << >> /\ ret = "none"
    /\ check_java \in BOOLEAN /\ check_frontend \in BOOLEAN
    /\ phase = "check_all" /\ todo = << >> /\ seen = << >>
    /\ file_path = "A.java" /\ lines = << >> /\ line_num = 0
    /\ in_multiline_comment = FALSE /\ in_template_section = FALSE
    /\ issues = << >> /\ self_issues = << >> /\ warnings = << >>

\* if self.check_java: self.check_java_files()
CheckJavaFiles ==
    /\ pc = "check_all"
    /\ todo' = IF check_java THEN JavaPaths ELSE << >>
    /\ pc' = "java_files"
    /\ UNCHANGED <<text, ret, check_java, check_frontend, phase, seen, file_path,
                   lines, line_num, in_multiline_comment, in_template_section,
                   issues, self_issues, warnings>>

\* if self.check_frontend: self.check_frontend_files()
CheckFrontendFiles ==
    /\ pc = "java_files"
    /\ todo = << >>
    /\ todo' = IF check_frontend THEN FrontendPaths ELSE << >>
    /\ pc' = "frontend_files"
    /\ UNCHANGED <<text, ret, check_java, check_frontend, phase, seen, file_path,
                   lines, line_num, in_multiline_comment, in_template_section,
                   issues, self_issues, warnings>>

\* file_issues = self.check_file(f), up to the first statement of check_file
CallCheckFile ==
    /\ pc \in {"java_files", "frontend_files"}
    /\ todo # << >>
    /\ file_path' = Head(todo)
    /\ todo' = Tail(todo)
    /\ issues' = << >>
    /\ phase' = pc
    /\ pc' = "open"
    /\ UNCHANGED <<text, ret, check_java, check_frontend, seen, lines, line_num,
                   in_multiline_comment, in_template_section, self_issues, warnings>>

\* self.issues.extend(file_issues)
Extend ==
    /\ pc = "returned"
    /\ phase \in {"java_files", "frontend_files"}
    /\ self_issues' = self_issues \o ret
    /\ pc' = phase
    /\ UNCHANGED <<text, ret, check_java, check_frontend, phase, todo, seen,
                   file_path, lines, line_num, in_multiline_comment,
                   in_template_section, issues, warnings>>

\* return len(self.issues) == 0
Finish ==
    /\ pc = "frontend_files"
    /\ todo = << >>
    /\ ret' = (Len(self_issues) = 0)
    /\ pc' = "done"
    /\ UNCHANGED <<text, check_java, check_frontend, phase, todo, seen, file_path,
                   lines, line_num, in_multiline_comment, in_template_section,
                   issues, self_issues, warnings>>

OpenSmallFile == Open(SmallFileSet)

NextAll ==
    \/ CheckJavaFiles \/ CheckFrontendFiles \/ CallCheckFile
    \/ OpenSmallFile \/ OpenFails \/ ProcessLine \/ Return \/ Extend \/ Finish

SpecAll == InitAll /\ [][NextAll]_vars

-----------------------------------------------------------------------------
(* Properties of the matcher and the classifier (SpecText)                  *)

Disallowed == Ideograph \cup PunctGlyph

\* some exclusion pattern matches t
SomeExclusion(t) == \E k \in 1..Len(exclude_patterns) : Search(exclude_patterns[k], t)

\* C2: has_real_chinese_content returns true for the line "@author" + space +
\* U+5F20 U+4E09: removing the match of the @author exclusion pattern leaves
\* the two ideographs in the text, so the line is retained.
C2_AuthorLineRetained ==
    (pc = "has_real" /\ text = AuthorTag \o Name) => ret = TRUE

\* C3: a text with at least one glyph of the punctuation set passes the
\* presence test, and has_real_chinese_content returns true for it when no
\* exclusion pattern matches it.
C3_PunctuationGlyphDetected ==
    (pc = "has_real" /\ (\E i \in 1..Len(text) : text[i] \in PunctGlyph))
        => /\ Present(text)
           /\ (~SomeExclusion(text) => ret = TRUE)

\* C4: a line with a match of an exclusion pattern and a disallowed character
\* outside that match makes has_real_chinese_content return true, whatever
\* other exclusion patterns match.
C4_DiscountDoesNotOverSuppress ==
    (/\ pc = "has_real"
     /\ \E k \in 1..Len(exclude_patterns) :
           LET ms == FindAll(exclude_patterns[k], text, 1)
           IN  /\ ms # << >>
               /\ \E i \in 1..Len(text) :
                     /\ text[i] \in Disallowed
                     /\ (i < ms[1][1] \/ i >= ms[1][2]))
        => ret = TRUE

\* the double-quoted substrings of t: between the 1st and 2nd quote, the 3rd
\* and 4th, and so on
QuotesBefore(t, i) == Cardinality({j \in 1..(i - 1) : t[j] = Quote})
DoubleQuoted(t) ==
    { SubSeq(t, a + 1, b - 1) : <<a, b>> \in
        { ab \in (1..Len(t)) \X (1..Len(t)) :
            /\ ab[1] < ab[2]
            /\ t[ab[1]] = Quote /\ t[ab[2]] = Quote
            /\ QuotesBefore(t, ab[1]) % 2 = 0
            /\ QuotesBefore(t, ab[2]) = QuotesBefore(t, ab[1]) + 1 } }

\* rules 1 to 4 of the classifier do not apply to the call
RulesOneToFourOff ==
    /\ ~in_multiline_comment /\ ~in_template_section
    /\ ~StartsWith(text, OpenComment) /\ ~StartsWith(text, LineComment)
    /\ ~(Contains(text, LineComment)
         /\ has_real_chinese_content(SubSeq(text, Find(text, LineComment), Len(text))))

StringAndOutsideCase ==
    /\ pc = "analyzed"
    /\ RulesOneToFourOff
    /\ \E q \in DoubleQuoted(text) : has_real_chinese_content(q)
    /\ has_real_chinese_content(TempLine(text))

\* the rules of the classifier, in the documented order
RuleApplies(r) ==
    CASE r = 1 -> in_multiline_comment \/ StartsWith(text, OpenComment)
      [] r = 2 -> StartsWith(text, LineComment)
      [] r = 3 -> Contains(text, LineComment)
                  /\ has_real_chinese_content(
                         SubSeq(text, Find(text, LineComment), Len(text)))
      [] r = 4 -> in_template_section
      [] r = 5 -> \E q \in DoubleQuoted(text) : has_real_chinese_content(q)
      [] r = 6 -> AnyQuotedContent("U0060", text)
      [] r = 7 -> AnyQuotedContent("U0027", text)
      [] r = 8 -> has_real_chinese_content(TempLine(text))
      [] OTHER -> TRUE
RuleCategory ==
    << "multiline comment", "single line comment", "inline comment", "Vue template",
       "string literal", "template literal", "character literal",
       "identifier or code", "unknown location" >>
FirstRule == CHOOSE r \in 1..Len(RuleCategory) :
                 RuleApplies(r) /\ \A q \in 1..(r - 1) : ~RuleApplies(q)

\* C6: when rules 1 to 4 do not apply and both a double-quoted substring and
\* the text outside all quotes satisfy the matcher, the result is string
\* literal; in general the result is the category of the first rule, in the
\* documented order, that applies.
C6_StringLiteralBeforeIdentifier ==
    /\ StringAndOutsideCase => ret = "string literal"
    /\ pc = "analyzed" => ret = RuleCategory[FirstRule]

C6_Witness == StringAndOutsideCase /\ ret = "string literal"

-----------------------------------------------------------------------------
(* Properties of check_file (Spec)                                          *)

Stripped(i) == Strip(lines[i])

\* line i of the file is a line the matcher flags
Flagged(i) == Stripped(i) # << >> /\ has_real_chinese_content(Stripped(i))

InFile == pc \in {"loop", "returned"} /\ seen # << >> /\ seen[Len(seen)].readable

NoMarker(t) ==
    /\ ~Contains(t, OpenComment) /\ ~Contains(t, CloseComment)
    /\ ~Contains(t, LineComment)
    /\ \A i \in 1..Len(t) : t[i] \notin {"U0022", "U0027", "U0060"}

\* C1: in a file whose line 1 is exactly the open token, whose line 2 has an
\* ideograph and no comment or quote marker and whose line 3 is exactly the
\* close token, the finding of line 2 has the category multiline comment, and
\* in_multiline_comment is false after line 3.
C1_CommentStatePersists ==
    (/\ InFile
     /\ Len(lines) = 3
     /\ lines[1] = OpenComment \o << "\n" >>
     /\ Flagged(2) /\ NoMarker(Stripped(2))
     /\ lines[3] = CloseComment \o << "\n" >>)
        => /\ line_num >= 2 =>
                \E k \in 1..Len(issues) :
                    issues[k].line = 2 /\ issues[k].type = "multiline comment"
           /\ line_num = 3 => ~in_multiline_comment

\* C5: once a non-blank line with the close token has been processed,
\* in_multiline_comment is false, flagged or not; so a finding is multiline
\* comment only if its line starts with the open token or follows a line with
\* an open token that no line from there on has closed.
C5_CloseTokenClearsFlag ==
    InFile =>
        /\ (line_num >= 1 /\ Stripped(line_num) # << >>
            /\ Contains(Stripped(line_num), CloseComment))
               => ~in_multiline_comment
        /\ \A k \in 1..Len(issues) :
              issues[k].type = "multiline comment" =>
                 \/ StartsWith(Stripped(issues[k].line), OpenComment)
                 \/ \E j \in 1..(issues[k].line - 1) :
                       /\ Contains(Stripped(j), OpenComment)
                       /\ \A i \in j..(issues[k].line - 1) :
                             ~Contains(Stripped(i), CloseComment)

\* C7: the findings are exactly the lines whose stripped text is non-empty and
\* satisfies the matcher, one finding each, in strictly ascending line number,
\* the number being the 1-based index in the raw line sequence.
C7_OneFindingPerFlaggedLine ==
    InFile =>
        LET flagged == {i \in 1..line_num : Flagged(i)}
        IN  /\ Len(issues) = Cardinality(flagged)
            /\ \A k \in 1..Len(issues) :
                  /\ issues[k].line \in flagged
                  /\ issues[k].content = RStrip(lines[issues[k].line])
                  /\ k < Len(issues) => issues[k].line < issues[k + 1].line

\* two flagged lines after a blank or unflagged first line
C7_Witness ==
    /\ InFile /\ pc = "returned" /\ Len(lines) = 3
    /\ ~Flagged(1) /\ Flagged(2) /\ Flagged(3)
    /\ Len(issues) = 2 /\ issues[1].line = 2 /\ issues[2].line = 3

BothTokensCase ==
    /\ InFile /\ line_num >= 1 /\ Flagged(line_num)
    /\ Contains(Stripped(line_num), OpenComment)
    /\ Contains(Stripped(line_num), CloseComment)

\* C10: after a flagged line with both the open and the close token, in either
\* order, in_multiline_comment is false, whatever it was before the line.
C10_BothTokensLeaveFlagFalse == BothTokensCase => ~in_multiline_comment

\* the line has the close token before the open token and follows a flagged
\* line that left the flag true
C10_Witness ==
    /\ BothTokensCase /\ line_num = 2
    /\ Scan(file_path, lines, 1).mc
    /\ Find(Stripped(2), CloseComment) < Find(Stripped(2), OpenComment)
    /\ ~in_multiline_comment

-----------------------------------------------------------------------------
(* Properties of the scan over several files (SpecAll)                      *)

\* the findings of a file scanned on its own
FindingsOf(f) ==
    IF f.readable THEN Scan(f.path, f.lines, Len(f.lines)).issues ELSE << >>

RECURSIVE FindingsOfAll(_)
FindingsOfAll(fs) ==
    IF fs = << >> THEN << >>
    ELSE FindingsOfAll(SubSeq(fs, 1, Len(fs) - 1)) \o FindingsOf(fs[Len(fs)])

\* the files check_all has to check, in order
AllPaths ==
    (IF check_java THEN JavaPaths ELSE << >>)
        \o (IF check_frontend THEN FrontendPaths ELSE << >>)

\* C8: at the start of every check_file call both flags are false, and the
\* findings of a file are those of the file scanned on its own, whatever
\* files were scanned before it.
C8_FreshStatePerFile ==
    /\ (pc = "loop" /\ line_num = 0)
          => (~in_multiline_comment /\ ~in_template_section)
    /\ (pc = "returned" /\ seen[Len(seen)].readable)
          => ret = FindingsOf(seen[Len(seen)])

\* the previous file ended inside an unclosed comment or template region and
\* this file has a finding outside any comment or template
C8_Witness ==
    /\ pc = "returned" /\ Len(seen) >= 2
    /\ seen[Len(seen)].readable /\ seen[Len(seen) - 1].readable
    /\ LET prev == seen[Len(seen) - 1]
           st   == Scan(prev.path, prev.lines, Len(prev.lines))
       IN  st.mc /\ st.ts
    /\ ret # << >> /\ ret[1].type = "identifier or code"

\* C9: an unreadable file makes check_file return no finding after a warning;
\* the scan goes on to the remaining files, and self.issues ends as the
\* findings of the readable files, in order.
C9_UnreadableFileIsSkipped ==
    /\ (pc = "returned" /\ ~seen[Len(seen)].readable)
          => /\ ret = << >>
             /\ \E k \in 1..Len(warnings) : warnings[k] = file_path
    /\ \/ pc = "done"
       \/ pc = "loop" /\ line_num < Len(lines)    \* ProcessLine is enabled
       \/ ENABLED (CheckJavaFiles \/ CheckFrontendFiles \/ CallCheckFile
                   \/ OpenSmallFile \/ OpenFails \/ Return \/ Extend \/ Finish)
    /\ pc = "done"
          => /\ [i \in 1..Len(seen) |-> seen[i].path] = AllPaths
             /\ self_issues = FindingsOfAll(seen)

\* an unreadable file between two readable files with findings
C9_Witness ==
    /\ pc = "done" /\ Len(seen) = 3
    /\ seen[1].readable /\ ~seen[2].readable /\ seen[3].readable
    /\ FindingsOf(seen[1]) # << >> /\ FindingsOf(seen[3]) # << >>
    /\ warnings = << seen[2].path >>
    /\ self_issues = FindingsOf(seen[1]) \o FindingsOf(seen[3])

====
